---- MODULE Spec2Model ----
(***************************************************************************)
(* Model of src/main.py: the ROCm detection fallback chain, the dependency *)
(* check, the synthesis of the two flag blobs, and the build invocation,   *)
(* followed step by step through one run of main().                        *)
(*                                                                         *)
(* Text that the program parses or sorts (link targets, tool output,       *)
(* directory names, version strings) is a sequence of one-character        *)
(* strings; text that the program only formats is a TLA+ string.           *)
(***************************************************************************)
EXTENDS Naturals, Sequences, FiniteSets, TLC

(***************************************************************************)
(* Characters, in code point order (Python compares str by code point).    *)
(***************************************************************************)
Alphabet ==
    << "-", ".", "/", "0", "1", "2", "3", "4", "5", "6", "7", "8", "9",
       "C", "M", "O", "R", "a", "b", "c", "d", "e", "h", "l", "m", "n",
       "o", "p", "r", "s", "t", "u", "v", "w", "x" >>

Ord(c) == CHOOSE i \in 1..Len(Alphabet) : Alphabet[i] = c

Digits == <<"0", "1", "2", "3", "4", "5", "6", "7", "8", "9">>

IsDigit(c) == \E i \in 1..Len(Digits) : Digits[i] = c

DigitValue(c) == (CHOOSE i \in 1..Len(Digits) : Digits[i] = c) - 1

\* str < str of Python: first differing character decides, a proper prefix is less
RECURSIVE LexLess(_, _)
LexLess(a, b) ==
    IF b = <<>> THEN FALSE
    ELSE IF a = <<>> THEN TRUE
    ELSE IF Head(a) = Head(b) THEN LexLess(Tail(a), Tail(b))
    ELSE Ord(Head(a)) < Ord(Head(b))

\* sorted(list): ascending order; the list has no duplicates (directory entries)
RECURSIVE Sorted(_)
Sorted(S) ==
    IF S = {} THEN <<>>
    ELSE LET m == CHOOSE x \in S : \A y \in S \ {x} : LexLess(x, y)
         IN  <<m>> \o Sorted(S \ {m})

\* the text of a character sequence
RECURSIVE Str(_)
Str(s) == IF s = <<>> THEN "" ELSE Head(s) \o Str(Tail(s))

StartsWithAt(s, i, p) ==
    /\ i + Len(p) - 1 <= Len(s)
    /\ SubSeq(s, i, i + Len(p) - 1) = p

\* length of the longest run of digits of s that starts at index i (greedy \d+)
RECURSIVE DigitRun(_, _)
DigitRun(s, i) ==
    IF i <= Len(s) /\ IsDigit(s[i]) THEN 1 + DigitRun(s, i + 1) ELSE 0

\* the match of <prefix>(\d+\.\d+\.\d+) anchored at index i: the end index of
\* the group, or 0 when the pattern does not match there
TripleEndAt(s, i, prefix) ==
    IF ~StartsWithAt(s, i, prefix) THEN 0
    ELSE LET a  == i + Len(prefix)
             n1 == DigitRun(s, a)
             b  == a + n1 + 1
             n2 == DigitRun(s, b)
             c  == b + n2 + 1
             n3 == DigitRun(s, c)
         IN  IF /\ n1 >= 1
                /\ a + n1 <= Len(s) /\ s[a + n1] = "."
                /\ n2 >= 1
                /\ b + n2 <= Len(s) /\ s[b + n2] = "."
                /\ n3 >= 1
             THEN c + n3 - 1
             ELSE 0

\* re.search(prefix + r'(\d+\.\d+\.\d+)', s): group(1) of the leftmost match,
\* <<>> for None
SearchVersion(prefix, s) ==
    LET hits == {i \in 1..Len(s) : TripleEndAt(s, i, prefix) > 0}
    IN  IF hits = {} THEN <<>>
        ELSE LET i == CHOOSE h \in hits : \A k \in hits : h <= k
             IN  SubSeq(s, i + Len(prefix), TripleEndAt(s, i, prefix))

\* str.split(sep) for a one-character separator
RECURSIVE Split(_, _)
Split(s, sep) ==
    LET cuts == {i \in 1..Len(s) : s[i] = sep}
    IN  IF cuts = {} THEN <<s>>
        ELSE LET i == CHOOSE c \in cuts : \A k \in cuts : c <= k
             IN  <<SubSeq(s, 1, i - 1)>> \o Split(SubSeq(s, i + 1, Len(s)), sep)

\* int(s) succeeds on a non-empty run of decimal digits (the only forms the
\* modelled tool outputs take); anything else raises ValueError
IsIntLiteral(s) == s # <<>> /\ \A i \in 1..Len(s) : IsDigit(s[i])

RECURSIVE ParseInt(_)
ParseInt(s) ==
    IF s = <<>> THEN 0
    ELSE 10 * ParseInt(SubSeq(s, 1, Len(s) - 1)) + DigitValue(s[Len(s)])

\* str(n) of a non-negative int
RECURSIVE ToDecimal(_)
ToDecimal(n) ==
    IF n < 10 THEN Digits[n + 1]
    ELSE ToDecimal(n \div 10) \o Digits[(n % 10) + 1]

\* sep.join(tokens)
RECURSIVE Join(_, _)
Join(tokens, sep) ==
    IF tokens = <<>> THEN ""
    ELSE IF Len(tokens) = 1 THEN tokens[1]
    ELSE tokens[1] \o sep \o Join(Tail(tokens), sep)


\* str.strip(): drops leading and trailing whitespace
IsSpace(c) == c = " " \/ c = "\n"

RECURSIVE Strip(_)
Strip(s) ==
    IF s = <<>> THEN s
    ELSE IF IsSpace(Head(s)) THEN Strip(Tail(s))
    ELSE IF IsSpace(s[Len(s)]) THEN Strip(SubSeq(s, 1, Len(s) - 1))
    ELSE s

\* str.endswith / the '*.whl' pattern of Path.glob
EndsWith(s, suffix) ==
    /\ Len(s) >= Len(suffix)
    /\ SubSeq(s, Len(s) - Len(suffix) + 1, Len(s)) = suffix

Last(seq) == seq[Len(seq)]

Events(seq) == {seq[i] : i \in 1..Len(seq)}

(***************************************************************************)
(* Bounds of the explored environment.                                     *)
(***************************************************************************)
MaxSiblings == 2    \* entries of /opt besides the default path
MaxWheels == 2      \* files in dist/ after the build command

(***************************************************************************)
(* Program constants.                                                      *)
(***************************************************************************)
default_path == "/opt/rocm"

SymlinkPrefix == <<"r", "o", "c", "m", "-">>

SmiPrefix == <<"R", "O", "C", "m", "-">>

SiblingGlobPrefix == <<"/", "o", "p", "t", "/", "r", "o", "c", "m", "-">>

WheelSuffix == <<".", "w", "h", "l">>

required_commands == <<"gcc", "g++", "python3", "cmake">>

(***************************************************************************)
(* The environment the program can meet.                                   *)
(***************************************************************************)
LinkTargets ==
    { <<"/", "o", "p", "t", "/", "r", "o", "c", "m", "-", "6", ".", "3", ".", "1">>,
      <<"/", "e", "t", "c", "/", "r", "o", "c", "m">> }

\* rocm-smi --showversion: exit status and captured stdout
SmiOutcomes ==
    { [exit |-> "ok",      stdout |-> <<"R", "O", "C", "m", "-", "5", ".", "7", ".", "0", "\n">>],
      [exit |-> "ok",      stdout |-> <<"R", "O", "C", "m", "-", "6", ".", "2", "\n">>],
      [exit |-> "nonzero", stdout |-> <<>>],
      [exit |-> "nostart", stdout |-> <<>>] }

OptPool ==
    { <<"/", "o", "p", "t", "/", "r", "o", "c", "m", "-", "5", ".", "7", ".", "0">>,
      <<"/", "o", "p", "t", "/", "r", "o", "c", "m", "-", "6", ".", "1", ".", "2">>,
      <<"/", "o", "p", "t", "/", "r", "o", "c", "m", "-", "6", ".", "9", ".", "0">>,
      <<"/", "o", "p", "t", "/", "r", "o", "c", "m", "-", "6", ".", "1", "0", ".", "0">>,
      <<"/", "o", "p", "t", "/", "r", "o", "c", "m", "-", "b", "e", "t", "a">>,
      <<"/", "o", "p", "t", "/", "c", "u", "d", "a">> }

GpuArchs == {"gfx1102", "gfx90a"}

\* gcc -dumpversion / which gcc: exit status and output
GccProbes ==
    { [dump |-> "ok", out |-> <<"1", "2", "\n">>, which |-> "ok"],
      [dump |-> "ok", out |-> <<"9", ".", "4", "\n">>, which |-> "ok"],
      [dump |-> "ok", out |-> <<"x", "\n">>, which |-> "ok"],
      [dump |-> "ok", out |-> <<"1", "2", ".", "\n">>, which |-> "ok"],
      [dump |-> "nonzero", out |-> <<>>, which |-> "ok"],
      [dump |-> "ok", out |-> <<"1", "2", "\n">>, which |-> "nonzero"],
      [dump |-> "ok", out |-> <<"1", "2", "\n">>, which |-> "nostart"] }

CppDirPool ==
    { "/usr/include/c++",
      "/usr/include/c++/12",
      "/usr/include/x86_64-linux-gnu/c++/12" }

DistPool ==
    { <<"a", ".", "w", "h", "l">>,
      <<"b", ".", "w", "h", "l">>,
      <<"c", ".", "t", "x", "t">> }

\* directory listings: the entries of a directory in the order the operating
\* system returns them, which is any order
Listings(S, n) ==
    UNION { { seq \in [1..k -> S] : \A i, j \in 1..k : i # j => seq[i] # seq[j] }
            : k \in 0..n }

BuildOutcomes == {"exit0", "nonzero", "nostart"}

NoDeps == [gcc_version |-> <<>>, cpp_dirs |-> <<>>]

NoRun == [version |-> <<>>, arch |-> "", cpp_dirs |-> <<>>, hipcc |-> "", cmake |-> ""]

VARIABLES
    pc,           \* position of the run in main / build_pytorch
    trace,        \* probes and commands performed so far, in order
    srcExists,    \* os.path.exists(source_path)
    gpu_arch,     \* sys.argv[3]
    defaultKind,  \* what /opt/rocm is: "absent", "dir", "link", "dangling"
    linkTarget,   \* os.readlink(/opt/rocm) when it is a link
    smi,          \* what running rocm-smi --showversion does
    optEntries,   \* the other entries of /opt
    rocm_version, \* version found by detect_rocm_installation, <<>> before
    deps_info,    \* result of check_dependencies
    compat_flags, \* what check_rocm_compatibility(rocm_version) returned
    hipcc,        \* build_env['HIPCC_COMPILE_FLAGS_APPEND']
    cmake,        \* build_env['CMAKE_ARGS']
    buildExit,    \* outcome of setup.py bdist_wheel, "none" before
    dist,         \* listing of dist/ after the build command
    wheel_path,   \* the wheel build_pytorch logs, <<>> if none
    err,          \* the exception in flight or caught, "none" if none
    success,      \* return value of build_pytorch
    exitStatus,   \* <<>> while running, <<status>> after sys.exit
    prev          \* the inputs and flag blobs of an earlier run, NoRun if none

env == <<srcExists, gpu_arch, defaultKind, linkTarget, smi, optEntries>>

locals == <<rocm_version, deps_info, compat_flags, hipcc, cmake, buildExit, dist, wheel_path,
            err, success, exitStatus>>

vars == <<pc, trace, env, locals, prev>>

Fresh ==
    /\ pc = "main"
    /\ trace = <<>>
    /\ rocm_version = <<>>
    /\ deps_info = NoDeps
    /\ compat_flags = <<>>
    /\ hipcc = ""
    /\ cmake = ""
    /\ buildExit = "none"
    /\ dist = <<>>
    /\ wheel_path = <<>>
    /\ err = "none"
    /\ success = FALSE
    /\ exitStatus = <<>>

Environment ==
    /\ srcExists \in BOOLEAN
    /\ gpu_arch \in GpuArchs
    /\ defaultKind \in {"absent", "dir", "link", "dangling"}
    /\ linkTarget \in IF defaultKind \in {"link", "dangling"} THEN LinkTargets ELSE {<<>>}
    /\ smi \in SmiOutcomes
    /\ optEntries \in {S \in SUBSET OptPool : Cardinality(S) <= MaxSiblings}

Init == Environment /\ Fresh /\ prev = NoRun


(***************************************************************************)
(* Control flow helpers.                                                   *)
(***************************************************************************)
Did(e) == trace' = Append(trace, e)

Goto(l) == pc' = l

\* an exception leaves the try block of build_pytorch for its handler
Raise(e) == pc' = "except" /\ err' = e

\* detect_rocm_installation returns (default_path, version)
ReturnVersion(v) ==
    /\ rocm_version' = v
    /\ pc' = "check_deps"
    /\ UNCHANGED err

(***************************************************************************)
(* main, up to the call of build_pytorch.                                  *)
(***************************************************************************)
Main ==
    /\ pc = "main"
    /\ IF ~srcExists
       THEN /\ exitStatus' = <<1>>
            /\ Goto("exited")
       ELSE /\ Goto("detect_path")
            /\ UNCHANGED exitStatus
    /\ UNCHANGED <<trace, env, prev, rocm_version, deps_info, compat_flags, hipcc, cmake,
                   buildExit, dist, wheel_path, err, success>>

(***************************************************************************)
(* detect_rocm_installation                                                *)
(***************************************************************************)
\* variant: os.path.lexists, which counts a dangling link as existing
PathExistsLexists == defaultKind # "absent"

\* os.path.exists follows symbolic links: a dangling link does not exist
PathExists == defaultKind \in {"dir", "link"}

IsLink == defaultKind \in {"link", "dangling"}

DetectDefaultPath ==
    /\ pc = "detect_path"
    /\ Did("exists")
    /\ IF PathExists
       THEN Goto("detect_link") /\ UNCHANGED err
       ELSE Raise("RuntimeError")
    /\ UNCHANGED <<env, prev, rocm_version, deps_info, compat_flags, hipcc, cmake,
                   buildExit, dist, wheel_path, success, exitStatus>>

\* variant: the link target searched with the pattern of the tool output
SymlinkVersionToolPattern ==
    IF IsLink THEN SearchVersion(SmiPrefix, linkTarget) ELSE <<>>

\* the version the symlink strategy yields, <<>> if none
SymlinkVersion ==
    IF IsLink THEN SearchVersion(SymlinkPrefix, linkTarget) ELSE <<>>

DetectSymlink ==
    /\ pc = "detect_link"
    /\ trace' = trace \o (IF IsLink THEN <<"islink", "readlink">> ELSE <<"islink">>)
    /\ IF SymlinkVersion # <<>>
       THEN ReturnVersion(SymlinkVersion)
       ELSE Goto("detect_smi") /\ UNCHANGED <<rocm_version, err>>
    /\ UNCHANGED <<env, prev, deps_info, compat_flags, hipcc, cmake, buildExit, dist,
                   wheel_path, success, exitStatus>>

\* the version the diagnostic tool yields, <<>> if none
SmiVersion ==
    IF smi.exit = "ok" THEN SearchVersion(SmiPrefix, smi.stdout) ELSE <<>>

\* the exceptions of subprocess.run(..., check=True) that the try block of
\* the diagnostic-tool strategy handles
SmiHandled(outcome) == outcome = "nonzero"

DetectSmi ==
    /\ pc = "detect_smi"
    /\ Did("rocm-smi")
    /\ IF smi.exit = "ok"
       THEN IF SmiVersion # <<>>
            THEN ReturnVersion(SmiVersion)
            ELSE Goto("detect_glob") /\ UNCHANGED <<rocm_version, err>>
       ELSE IF SmiHandled(smi.exit)
            THEN Goto("detect_glob") /\ UNCHANGED <<rocm_version, err>>
            ELSE Raise("FileNotFoundError") /\ UNCHANGED rocm_version
    /\ UNCHANGED <<env, prev, deps_info, compat_flags, hipcc, cmake, buildExit, dist,
                   wheel_path, success, exitStatus>>

\* glob.glob("/opt/rocm-*")
RocmDirs == {e \in optEntries : StartsWithAt(e, 1, SiblingGlobPrefix)}

\* variant: sorted(rocm_dirs)[0]
LatestDirFirst(rocm_dirs) == Head(Sorted(rocm_dirs))

\* sorted(rocm_dirs)[-1]
LatestDir(rocm_dirs) == Last(Sorted(rocm_dirs))

\* the version the sibling-directory strategy yields, <<>> if none
SiblingVersion ==
    IF RocmDirs # {}
    THEN SearchVersion(SymlinkPrefix, LatestDir(RocmDirs))
    ELSE <<>>

DetectSiblings ==
    /\ pc = "detect_glob"
    /\ Did("glob")
    /\ IF SiblingVersion # <<>>
       THEN ReturnVersion(SiblingVersion)
       ELSE Raise("RuntimeError") /\ UNCHANGED rocm_version
    /\ UNCHANGED <<env, prev, deps_info, compat_flags, hipcc, cmake, buildExit, dist,
                   wheel_path, success, exitStatus>>


(***************************************************************************)
(* check_dependencies and find_gcc_version                                 *)
(***************************************************************************)
CheckDependencies ==
    /\ pc = "check_deps"
    /\ Did("which")
    /\ \E present \in SUBSET Events(required_commands) :
          LET missing == SelectSeq(required_commands, LAMBDA c : c \notin present)
          IN  IF missing # <<>>
              THEN Raise("RuntimeError")
              ELSE Goto("find_gcc") /\ UNCHANGED err
    /\ UNCHANGED <<env, prev, rocm_version, deps_info, compat_flags, hipcc, cmake,
                   buildExit, dist, wheel_path, success, exitStatus>>

\* int() of the first two components of gcc -dumpversion succeeds
GccParses(out) ==
    LET version_parts == Split(Strip(out), ".")
    IN  /\ IsIntLiteral(version_parts[1])
        /\ Len(version_parts) > 1 => IsIntLiteral(version_parts[2])

\* (major, minor) of find_gcc_version
GccVersion(out) ==
    LET version_parts == Split(Strip(out), ".")
    IN  << ParseInt(version_parts[1]),
           IF Len(version_parts) > 1 THEN ParseInt(version_parts[2]) ELSE 0 >>

FindGccVersion ==
    /\ pc = "find_gcc"
    /\ Did("gcc")
    /\ \E probe \in GccProbes :
          IF probe.dump = "nonzero"
          THEN Raise("RuntimeError") /\ UNCHANGED deps_info
          ELSE IF probe.which = "nostart"
          THEN Raise("FileNotFoundError") /\ UNCHANGED deps_info
          ELSE IF probe.which = "nonzero" \/ ~GccParses(probe.out)
          THEN Raise("RuntimeError") /\ UNCHANGED deps_info
          ELSE /\ deps_info' = [deps_info EXCEPT !.gcc_version = GccVersion(probe.out)]
               /\ Goto("cpp_dirs")
               /\ UNCHANGED err
    /\ UNCHANGED <<env, prev, rocm_version, compat_flags, hipcc, cmake, buildExit, dist,
                   wheel_path, success, exitStatus>>

cpp_base_dirs(gcc_major) ==
    << "/usr/include/c++",
       "/usr/include/c++/" \o ToDecimal(gcc_major),
       "/usr/include/x86_64-linux-gnu/c++/" \o ToDecimal(gcc_major) >>

CheckCppDirs ==
    /\ pc = "cpp_dirs"
    /\ Did("cpp")
    /\ \E existing \in SUBSET CppDirPool :
          LET cpp_dirs_found ==
                  SelectSeq(cpp_base_dirs(deps_info.gcc_version[1]),
                            LAMBDA d : d \in existing)
          IN  IF cpp_dirs_found = <<>>
              THEN Raise("RuntimeError") /\ UNCHANGED deps_info
              ELSE /\ deps_info' = [deps_info EXCEPT !.cpp_dirs = cpp_dirs_found]
                   /\ Goto("synth")
                   /\ UNCHANGED err
    /\ UNCHANGED <<env, prev, rocm_version, compat_flags, hipcc, cmake, buildExit, dist,
                   wheel_path, success, exitStatus>>

(***************************************************************************)
(* check_rocm_compatibility and the flag blobs of build_pytorch            *)
(***************************************************************************)
\* the version has three components (it is a match of \d+\.\d+\.\d+), so the
\* unpacking of split('.') into three names cannot fail
check_rocm_compatibility(version) ==
    LET major == Str(Split(version, ".")[1])
        minor == Str(Split(version, ".")[2])
    IN  IF ParseInt(Split(version, ".")[1]) >= 6
        THEN << "-DROCM_VERSION_MAJOR=" \o major,
                "-DROCM_VERSION_MINOR=" \o minor,
                "-DROCM_VERSION=" \o Join(<<major, minor, "01">>, ""),
                "-DTORCH_HIP_VERSION=" \o Join(<<major, minor, "0">>, "") >>
        ELSE <<>>

\* variant: the directory of the gcc major version is added whether found or not
IncludeFlagsWithMajor(flag, cpp_dirs) ==
    [i \in 1..Len(cpp_dirs) |-> flag \o cpp_dirs[i]]
        \o <<flag \o "/usr/include/c++/" \o ToDecimal(deps_info.gcc_version[1])>>

\* [f'{flag}{cpp_dir}' for cpp_dir in deps_info['cpp_dirs']]
IncludeFlags(flag, cpp_dirs) ==
    [i \in 1..Len(cpp_dirs) |-> flag \o cpp_dirs[i]]

\* hipcc_flags before the result of check_rocm_compatibility is appended
hipcc_flags(rocm_path, version, arch, cpp_dirs) ==
       << "\"\\--rocm-path=" \o rocm_path \o "\"",
          "\"\\--rocm-device-lib-path=" \o rocm_path \o "/amdgcn/bitcode\"",
          "\"\\--offload-arch=" \o arch \o "\"",
          "-I" \o rocm_path \o "/include",
          "-I" \o rocm_path \o "/include/hip",
          "-I" \o rocm_path \o "/include/rocm",
          "-D__HIP_ENABLE_DEVICE_MALLOC__",
          "-DROCPRIM_DISABLE_UNINITIALIZED_ARRAY",
          "-DROCPRIM_THREAD_LOAD_USE_CACHE_MODIFIERS=0",
          "-D__HIP_ARCH_HAS_WARP_SHUFFLE__=1",
          "-D__HIP_PLATFORM_AMD__",
          "-D__HIP_ROCclr__" >>
    \o
       IncludeFlags("-I", cpp_dirs)
    \o
       << "-D__HIP_PLATFORM_AMD__=1",
          "-DROCM_VERSION_MAJOR=" \o Str(Split(version, ".")[1]),
          "-DROCM_VERSION_MINOR=" \o Str(Split(version, ".")[2]),
          "-DHIP_COMPILER=clang",
          "-DTHRUST_DEVICE_SYSTEM=THRUST_DEVICE_SYSTEM_HIP",
          "-D__HIP_DISABLE_CPP_FUNCTIONS__",
          "-DROCPRIM_DEFAULT_ALLOCATOR=1",
          "--amdgpu-function-calls=false",
          "-DROCPRIM_HIP_API=1",
          "-DROCPRIM_DISABLE_HOST_NEW_DELETE=1",
          "-D__HIP_NO_NEW_DELETE__",
          "-D__host__=__attribute__((__host__))",
          "-D__device__=__attribute__((__device__))",
          "-D__forceinline__=__attribute__((always_inline)) inline",
          "-D_HAS_UNIFIED_MEMORY=1",
          "-std=c++17",
          "-pthread",
          "-fno-gpu-rdc",
          "--offload-arch=" \o arch,
          "-fPIC",
          "-Wno-deprecated-declarations",
          "-Wno-unknown-cuda-version",
          "-Wno-return-type-c-linkage",
          "-Wno-unused-result",
          "-D__HIP_PLATFORM_HCC__",
          "-DHIP_CLANG_HCC_COMPAT_MODE=1",
          "-DCAFFE2_USE_MIOPEN",
          "-DHIPBLAS_V2",
          "-DHIP_NEW_TYPE_ENUMS" >>

cmake_args(rocm_path, version, arch, cpp_dirs) ==
       << "-DCMAKE_CXX_STANDARD=17",
          "-DHIP_COMPILER_FLAGS=\"--offload-arch=" \o arch \o "\"",
          "-DCMAKE_HIP_ARCHITECTURES=" \o arch,
          "-DROCM_PATH=" \o rocm_path,
          "-DHIP_COMPILER=clang",
          "-DROCM_VERSION=" \o Str(version),
          "-DCMAKE_PREFIX_PATH=" \o rocm_path,
          "-DHIP_PATH=" \o rocm_path \o "/hip",
          "-DUSE_ROCM=ON",
          "-DUSE_CUDA=OFF" >>
    \o
       IncludeFlags("-DCMAKE_CXX_STANDARD_INCLUDE_DIRECTORIES=", cpp_dirs)

SynthesizeEnvironment ==
    /\ pc = "synth"
    /\ compat_flags' = check_rocm_compatibility(rocm_version)
    /\ hipcc' = Join(hipcc_flags(default_path, rocm_version, gpu_arch, deps_info.cpp_dirs)
                     \o check_rocm_compatibility(rocm_version), " ")
    /\ cmake' = Join(cmake_args(default_path, rocm_version, gpu_arch, deps_info.cpp_dirs),
                     " ")
    /\ Goto("chdir")
    /\ UNCHANGED <<trace, env, prev, rocm_version, deps_info, buildExit, dist, wheel_path,
                   err, success, exitStatus>>

(***************************************************************************)
(* The build: chdir, setup.py bdist_wheel, the scan of dist/               *)
(***************************************************************************)
Chdir ==
    /\ pc = "chdir"
    /\ Did("chdir")
    /\ \E ok \in BOOLEAN :
          IF ok THEN Goto("build") /\ UNCHANGED err
                ELSE Raise("OSError")
    /\ UNCHANGED <<env, prev, rocm_version, deps_info, compat_flags, hipcc, cmake,
                   buildExit, dist, wheel_path, success, exitStatus>>

\* variant: subprocess.run without check=True returns on any exit status
BuildReturnsUnchecked(outcome) == outcome \in {"exit0", "nonzero"}

\* the exit statuses subprocess.run(..., check=True) returns normally from
BuildReturns(outcome) == outcome = "exit0"

RunBuild ==
    /\ pc = "build"
    /\ Did("build")
    /\ \E outcome \in BuildOutcomes, listing \in Listings(DistPool, MaxWheels) :
          /\ buildExit' = outcome
          /\ dist' = listing
          /\ IF BuildReturns(outcome)
             THEN Goto("scan") /\ UNCHANGED err
             ELSE Raise(IF outcome = "nonzero" THEN "CalledProcessError"
                                               ELSE "FileNotFoundError")
    /\ UNCHANGED <<env, prev, rocm_version, deps_info, compat_flags, hipcc, cmake,
                   wheel_path, success, exitStatus>>

\* list(Path('dist').glob('*.whl')): the matching entries in listing order
Wheels(listing) == SelectSeq(listing, LAMBDA f : EndsWith(f, WheelSuffix))

\* wheels[-1]
SelectWheel(wheels) == Last(wheels)

ScanWheels ==
    /\ pc = "scan"
    /\ Did("scan")
    /\ IF Wheels(dist) # <<>>
       THEN /\ wheel_path' = SelectWheel(Wheels(dist))
            /\ success' = TRUE
       ELSE /\ success' = FALSE
            /\ UNCHANGED wheel_path
    /\ Goto("return")
    /\ UNCHANGED <<env, prev, rocm_version, deps_info, compat_flags, hipcc, cmake,
                   buildExit, dist, err, exitStatus>>

\* variant: the handler logs and control falls through to the scan of dist/
ExceptThenScan ==
    /\ pc = "except"
    /\ success' = FALSE
    /\ Goto("scan")
    /\ UNCHANGED <<trace, env, prev, rocm_version, deps_info, compat_flags, hipcc, cmake,
                   buildExit, dist, wheel_path, err, exitStatus>>

\* except Exception: log and return False
Except ==
    /\ pc = "except"
    /\ success' = FALSE
    /\ Goto("return")
    /\ UNCHANGED <<trace, env, prev, rocm_version, deps_info, compat_flags, hipcc, cmake,
                   buildExit, dist, wheel_path, err, exitStatus>>

\* variant: sys.exit(success), where True exits with 1 and False with 0
ExitBool ==
    /\ pc = "return"
    /\ exitStatus' = IF success THEN <<1>> ELSE <<0>>
    /\ Goto("exited")
    /\ UNCHANGED <<trace, env, prev, rocm_version, deps_info, compat_flags, hipcc, cmake,
                   buildExit, dist, wheel_path, err, success>>

\* sys.exit(0 if success else 1)
Exit ==
    /\ pc = "return"
    /\ exitStatus' = IF success THEN <<0>> ELSE <<1>>
    /\ Goto("exited")
    /\ UNCHANGED <<trace, env, prev, rocm_version, deps_info, compat_flags, hipcc, cmake,
                   buildExit, dist, wheel_path, err, success>>

Next ==
    \/ Main
    \/ DetectDefaultPath
    \/ DetectSymlink
    \/ DetectSmi
    \/ DetectSiblings
    \/ CheckDependencies
    \/ FindGccVersion
    \/ CheckCppDirs
    \/ SynthesizeEnvironment
    \/ Chdir
    \/ RunBuild
    \/ ScanWheels
    \/ Except
    \/ Exit

Spec == Init /\ [][Next]_vars


(***************************************************************************)
(* Repeated runs: the script is started again on the same machine with the *)
(* same arguments.  The toolkit installation and the arguments stay; what  *)
(* the later probes meet (commands on PATH, gcc, the C++ directories, the  *)
(* build) is drawn anew by the actions.  prev keeps what an earlier run    *)
(* synthesized.                                                            *)
(***************************************************************************)
ThisRun ==
    [version |-> rocm_version, arch |-> gpu_arch, cpp_dirs |-> deps_info.cpp_dirs,
     hipcc |-> hipcc, cmake |-> cmake]

Synthesized == hipcc # ""

NewRun ==
    /\ pc = "exited"
    /\ prev' \in {prev} \cup (IF Synthesized THEN {ThisRun} ELSE {})
    /\ pc' = "main"
    /\ trace' = <<>>
    /\ rocm_version' = <<>>
    /\ deps_info' = NoDeps
    /\ compat_flags' = <<>>
    /\ hipcc' = ""
    /\ cmake' = ""
    /\ buildExit' = "none"
    /\ dist' = <<>>
    /\ wheel_path' = <<>>
    /\ err' = "none"
    /\ success' = FALSE
    /\ exitStatus' = <<>>
    /\ UNCHANGED env

NextRuns == Next \/ NewRun

SpecRuns == Init /\ [][NextRuns]_vars


(***************************************************************************)
(* Vocabulary of the properties.                                           *)
(***************************************************************************)
Done(e) == e \in Events(trace)

\* detect_rocm_installation is over, by return or by exception
ResolutionOver ==
    /\ Done("exists")
    /\ pc \notin {"main", "detect_path", "detect_link", "detect_smi", "detect_glob"}

Resolved == rocm_version # <<>>

RunFailed == pc = "except" \/ (pc \in {"return", "exited"} /\ ~success)

\* what each strategy would find, read off the environment
LinkYields ==
    IF defaultKind = "link" THEN SearchVersion(SymlinkPrefix, linkTarget) ELSE <<>>

ToolYields ==
    IF smi.exit = "ok" THEN SearchVersion(SmiPrefix, smi.stdout) ELSE <<>>

\* the matching sibling that no other matching sibling follows in string order
LexLastSibling ==
    LET dirs == {e \in optEntries : StartsWithAt(e, 1, SiblingGlobPrefix)}
    IN  IF dirs = {} THEN <<>>
        ELSE CHOOSE x \in dirs : \A y \in dirs : ~LexLess(x, y)

SiblingsYield ==
    IF LexLastSibling = <<>> THEN <<>>
    ELSE SearchVersion(SymlinkPrefix, LexLastSibling)

HasWheel == \E i \in 1..Len(dist) : EndsWith(dist[i], WheelSuffix)

Sibling570 == <<"/", "o", "p", "t", "/", "r", "o", "c", "m", "-", "5", ".", "7", ".", "0">>
Sibling612 == <<"/", "o", "p", "t", "/", "r", "o", "c", "m", "-", "6", ".", "1", ".", "2">>
Sibling690 == <<"/", "o", "p", "t", "/", "r", "o", "c", "m", "-", "6", ".", "9", ".", "0">>
Sibling6100 == <<"/", "o", "p", "t", "/", "r", "o", "c", "m", "-", "6", ".", "1", "0", ".", "0">>
SiblingBeta == <<"/", "o", "p", "t", "/", "r", "o", "c", "m", "-", "b", "e", "t", "a">>

(***************************************************************************)
(* C1: when /opt/rocm exists, the link gave no version and rocm-smi did    *)
(* anything but succeed with a version (exit 0 without the pattern,        *)
(* non-zero exit, or not startable), the sibling directories are           *)
(* enumerated; and resolution fails only if all three strategies yield     *)
(* nothing.                                                                *)
(***************************************************************************)
C1_ToolFailureFallsThrough ==
    (ResolutionOver /\ defaultKind \in {"dir", "link"} /\ LinkYields = <<>>)
        => /\ ToolYields = <<>> => Done("glob")
           /\ ~Resolved => (ToolYields = <<>> /\ SiblingsYield = <<>>)

(***************************************************************************)
(* C2: the strategies are tried in the order link target, rocm-smi,        *)
(* sibling directories, and the first that yields a version is the result: *)
(* a link with a version returns it without running rocm-smi or listing    *)
(* siblings; a tool version returns without listing siblings.              *)
(***************************************************************************)
C2_FirstStrategyWins ==
    /\ (defaultKind = "link" /\ LinkYields # <<>>)
          => /\ ~Done("rocm-smi") /\ ~Done("glob")
             /\ ResolutionOver => rocm_version = LinkYields
    /\ (defaultKind \in {"dir", "link"} /\ LinkYields = <<>> /\ ToolYields # <<>>)
          => /\ ~Done("glob")
             /\ ResolutionOver => rocm_version = ToolYields
    /\ Done("rocm-smi") => Done("islink")
    /\ Done("glob") => Done("rocm-smi")
    /\ \A i, j \in 1..Len(trace) :
          /\ (trace[i] = "rocm-smi" /\ trace[j] \in {"islink", "readlink"}) => j < i
          /\ (trace[i] = "glob" /\ trace[j] = "rocm-smi") => j < i

C2_Witness ==
    /\ pc = "check_deps"
    /\ defaultKind = "link"
    /\ rocm_version = <<"6", ".", "3", ".", "1">>
    /\ smi.exit = "ok" /\ ToolYields # <<>>
    /\ SiblingsYield # <<>>
    /\ trace = <<"exists", "islink", "readlink">>

(***************************************************************************)
(* C3: if /opt/rocm does not exist the detection fails at once: no link    *)
(* target is read, rocm-smi is not run, no sibling is listed, even when    *)
(* versioned siblings exist, and the run ends with status 1.               *)
(***************************************************************************)
C3_AbsentPathNoFallback ==
    defaultKind \in {"absent", "dangling"}
        => /\ Events(trace) \subseteq {"exists"}
           /\ ~Resolved
           /\ pc \in {"main", "detect_path", "except", "return", "exited"}
           /\ Done("exists") => (err = "RuntimeError" /\ RunFailed)
           /\ pc = "exited" => exitStatus = <<1>>

C3_Witness ==
    /\ defaultKind = "absent"
    /\ Sibling612 \in optEntries
    /\ smi.exit = "ok" /\ ToolYields # <<>>
    /\ pc = "exited"
    /\ err = "RuntimeError"
    /\ trace = <<"exists">>

(***************************************************************************)
(* C4: once the sibling strategy runs, the result is decided by the        *)
(* matching path that is last in string order: its version triple is       *)
(* returned (6.1.2 for 5.7.0 and 6.1.2; 6.9.0 for 6.9.0 and 6.10.0), and   *)
(* if it carries none the detection fails whatever the others carry.       *)
(***************************************************************************)
C4_SiblingLexLast ==
    Done("glob")
        => /\ SiblingsYield # <<>> => rocm_version = SiblingsYield
           /\ SiblingsYield = <<>>
                 => (~Resolved /\ Last(trace) = "glob" /\ err = "RuntimeError" /\ RunFailed)
           /\ optEntries = {Sibling570, Sibling612}
                 => rocm_version = <<"6", ".", "1", ".", "2">>
           /\ optEntries = {Sibling690, Sibling6100}
                 => rocm_version = <<"6", ".", "9", ".", "0">>
           /\ optEntries = {Sibling612, SiblingBeta} => ~Resolved

C4_Witness ==
    /\ Done("glob")
    /\ optEntries = {Sibling690, Sibling6100}
    /\ rocm_version = <<"6", ".", "9", ".", "0">>
    /\ pc = "check_deps"

(***************************************************************************)
(* C5: build_pytorch returns True exactly when the build command exited 0  *)
(* and dist/ then holds at least one file matching *.whl: exit 0 without a *)
(* wheel is a failure, a non-zero exit is a failure with or without wheels.*)
(***************************************************************************)
C5_SuccessIffExit0AndArtifact ==
    pc \in {"return", "exited"}
        => (success <=> (buildExit = "exit0" /\ HasWheel))

C5_Witness ==
    /\ pc = "return"
    /\ buildExit = "nonzero"
    /\ HasWheel
    /\ ~success

(***************************************************************************)
(* C6: main always ends in sys.exit: with status 0 exactly when the source *)
(* directory exists, the toolkit was resolved, the dependencies were       *)
(* found, the build exited 0 and a wheel was found, and with status 1      *)
(* otherwise; every raised exception reaches the handler of build_pytorch  *)
(* and no position before the exit is stuck.                               *)
(***************************************************************************)
C6_ExitStatus ==
    /\ pc = "exited"
          => /\ exitStatus \in {<<0>>, <<1>>}
             /\ exitStatus = <<0>>
                   <=> /\ srcExists
                       /\ Resolved
                       /\ deps_info.cpp_dirs # <<>>
                       /\ err = "none"
                       /\ buildExit = "exit0"
                       /\ HasWheel
    /\ pc # "exited" => exitStatus = <<>>
    /\ pc = "except" => ENABLED Except
    /\ pc = "return" => ENABLED Exit
    /\ err # "none" => pc \in {"except", "return", "exited"}
    /\ (err # "none" /\ pc \in {"return", "exited"}) => ~success

C6_Witness ==
    /\ pc = "exited"
    /\ exitStatus = <<1>>
    /\ err = "FileNotFoundError"
    /\ buildExit = "nostart"

(***************************************************************************)
(* C7: a run goes through Idle, Resolving, EnvironmentReady, Building and  *)
(* then Succeeded or Failed in that order and never back; nothing is done  *)
(* twice; chdir and the build command come only after the toolkit was      *)
(* resolved and the dependency check passed; after a failure no further    *)
(* probe or command is performed.                                          *)
(***************************************************************************)
StageOf(p, ok) ==
    IF p = "main" THEN "Idle"
    ELSE IF p \in {"detect_path", "detect_link", "detect_smi", "detect_glob",
                   "check_deps", "find_gcc", "cpp_dirs", "synth"} THEN "Resolving"
    ELSE IF p = "chdir" THEN "EnvironmentReady"
    ELSE IF p \in {"build", "scan"} THEN "Building"
    ELSE IF p = "except" \/ ~ok THEN "Failed"
    ELSE "Succeeded"

StageOrder == <<"Idle", "Resolving", "EnvironmentReady", "Building", "Succeeded", "Failed">>

StageRank(st) == CHOOSE i \in 1..Len(StageOrder) : StageOrder[i] = st

Terminal(st) == st \in {"Succeeded", "Failed"}

EventOrder ==
    <<"exists", "islink", "readlink", "rocm-smi", "glob", "which", "gcc", "cpp",
      "chdir", "build", "scan">>

EventRank(e) == CHOOSE i \in 1..Len(EventOrder) : EventOrder[i] = e

TraceInOrder ==
    /\ \A i, j \in 1..Len(trace) : i < j => EventRank(trace[i]) < EventRank(trace[j])
    /\ Done("chdir") => (Resolved /\ deps_info.cpp_dirs # <<>> /\ Done("cpp"))
    /\ Done("build") => Done("chdir")
    /\ Done("scan") => (Done("build") /\ buildExit = "exit0")

C7_StagesInOrder ==
    [][ LET st  == StageOf(pc, success)
            st2 == StageOf(pc', success')
        IN  /\ TraceInOrder /\ TraceInOrder'
            /\ Terminal(st) => (st2 = st /\ trace' = trace)
            /\ ~Terminal(st) => StageRank(st2) >= StageRank(st)
            /\ st2 = "Succeeded" => st \in {"Building", "Succeeded"}
            /\ (st = "Resolving" /\ ~Terminal(st2)) => StageRank(st2) <= StageRank(st) + 1
            /\ (st = "EnvironmentReady" /\ ~Terminal(st2)) => st2 = "Building"
            /\ st = "Idle" => st2 \in {"Resolving", "Failed"}
      ]_vars

C7_Witness ==
    /\ pc = "exited"
    /\ trace = <<"exists", "islink", "rocm-smi", "glob", "which", "gcc", "cpp",
                 "chdir", "build">>
    /\ err = "CalledProcessError"
    /\ exitStatus = <<1>>

C9_SelectsLexLastWheel ==
    (pc \in {"return", "exited"} /\ success)
        => \A i \in 1..Len(dist) :
              EndsWith(dist[i], WheelSuffix) => ~LexLess(wheel_path, dist[i])

(***************************************************************************)
(* C10: for major >= 6 check_rocm_compatibility emits -DROCM_VERSION with  *)
(* the value major*10000 + minor*100 + 1 and -DTORCH_HIP_VERSION with the  *)
(* value major*100 + minor, as its comments say (60301 and 603 for 6.3.x); *)
(* for major < 6 it emits no define.                                       *)
(***************************************************************************)
C10_DocumentedDefineFormats ==
    Synthesized
        => LET major == ParseInt(Split(rocm_version, ".")[1])
               minor == ParseInt(Split(rocm_version, ".")[2])
           IN  IF major >= 6
               THEN /\ Len(compat_flags) = 4
                    /\ compat_flags[3] =
                           "-DROCM_VERSION=" \o ToDecimal(major * 10000 + minor * 100 + 1)
                    /\ compat_flags[4] =
                           "-DTORCH_HIP_VERSION=" \o ToDecimal(major * 100 + minor)
               ELSE compat_flags = <<>>

====
